---- MODULE Spec2Model ----
(***************************************************************************)
(* Chunked data streaming of grafana-plugin-sdk-go.                        *)
(*                                                                         *)
(* Server side: chunkedDataWriter and chunkingState                        *)
(* (backend/data_adapter.go).  Client side: the receive loop of            *)
(* TestPluginClient.QueryChunkedData                                       *)
(* (experimental/datasourcetest/client.go).                                *)
(*                                                                         *)
(* Frames are Go pointers: the writer's frames live in a heap, a function  *)
(* from addresses to frame values, and chunkingState holds addresses.      *)
(* A cell of a frame is <<row, column>>: row is the serial number of the   *)
(* row among all the rows the producer ever created, so that a lost, a     *)
(* duplicated, a reordered or a misplaced row is visible.                  *)
(***************************************************************************)
EXTENDS Integers, Sequences, FiniteSets, TLC

\* ---------------------------------------------------------------- bounds
\* The refIDs the producer uses.
RefIDs == {"A", "B"}
\* Rows the producer creates in one run (WriteFrame rows and WriteFrameRow).
MaxRows == 3
\* WriteFrame calls in one run.
MaxFrames == 2

\* maybeFlush: const maxBatchSize = 1000, scaled down so that a run crosses
\* the threshold several times.
maxBatchSize == 2

\* ------------------------------------------------------------ data.Frame
\* The nil *data.Frame.
NilFrame == 0
\* var markerFrame = data.NewFrame(""): the address of the one marker frame.
markerFrame == 1

\* error values returned to the caller
OK == "ok"
NoOpenFragment == "no frame being processed, cannot add row"
FieldArityMismatch == "field count mismatch"
EncodingFailure == "marshal arrow failed"
TransportFailure == "stream send failed"
Panic == "panic: nil pointer dereference"

\* data.NewFrame(name, fields...): ncols fields, one row per element of rows.
\* Encodable is FALSE for a frame with a field that MarshalArrow rejects.
NewFrame(refID, ncols, rows, enc) ==
    [RefID |-> refID,
     Fields |-> [j \in 1..ncols |-> [i \in 1..Len(rows) |-> <<rows[i], j>>]],
     Encodable |-> enc]

\* Frame.Rows(): the length of the first field, 0 without fields.
Rows(f) == IF Len(f.Fields) = 0 THEN 0 ELSE Len(f.Fields[1])

\* Frame.EmptyCopy(): same fields, no rows.
EmptyCopy(f) == [f EXCEPT !.Fields = [j \in 1..Len(f.Fields) |-> <<>>]]

\* Frame.AppendRow(vals...): one value per field.
AppendRow(f, vals) ==
    [f EXCEPT !.Fields = [j \in 1..Len(f.Fields) |-> Append(f.Fields[j], vals[j])]]

\* Field.AppendAll(other)
AppendAll(field, other) == field \o other

\* The serial numbers of the rows of a frame, in order.
RowIDs(f) == IF Len(f.Fields) = 0 THEN <<>>
             ELSE [i \in 1..Len(f.Fields[1]) |-> f.Fields[1][i][1]]

RECURSIVE Flatten(_)
Flatten(ss) == IF ss = <<>> THEN <<>> ELSE Head(ss) \o Flatten(Tail(ss))

\* Frame.MarshalArrow(): the schema and the cells, column after column.
MarshalArrow(f) ==
    [refID |-> f.RefID, ncols |-> Len(f.Fields), nrows |-> Rows(f),
     cells |-> Flatten(f.Fields)]

\* data.UnmarshalArrowFrame(bytes)
UnmarshalArrowFrame(b) ==
    [RefID |-> b.refID,
     Fields |-> [j \in 1..b.ncols |->
                   SubSeq(b.cells, (j - 1) * b.nrows + 1, j * b.nrows)],
     Encodable |-> TRUE]

\* ---------------------------------------------------------------- state
VARIABLES
    states,     \* chunkedDataWriter.states: refID -> chunkingState (a Go map)
    count,      \* chunkedDataWriter.count
    heap,       \* address -> frame: the frames the writer can reach
    stream,     \* the responses sent and not yet received, oldest first
    broken,     \* the transport has failed: every later Send fails
    handler,    \* the producer: "running", "returned", "failed", "panicked"
    stateByRefID, \* the client's map refID -> streamState
    client,     \* the client: "recv", "done", "failed"
    result,     \* what the client's QueryChunkedData returned
    lastCall,   \* the last step taken: operation, refID, number of fields
                \* (WriteFrameRow), error returned
    written,    \* refID -> the frames written so far, as the producer built them
    nextRow,    \* serial number of the next row the producer creates
    nFrames,    \* WriteFrame calls so far
    wroteError, \* WriteError was called
    sent,       \* row -> how many times a response carrying it was sent
    markers,    \* refID -> how many marker frames were sent for it
    batches     \* the responses sent so far by a producer that has called
                \* WriteFrame once at most and WriteError never, counted apart
                \* for the flushes of maybeFlush (auto) and of Close (close);
                \* zero for any other producer

vars == <<states, count, heap, stream, broken, handler, stateByRefID,
          client, result, lastCall, written, nextRow, nFrames, wroteError, sent,
          markers, batches>>

writerVars == <<states, count, heap, broken>>
clientVars == <<stateByRefID, client, result>>

\* ------------------------------------------------------- chunkingState
\* The nil *chunkingState that a map lookup of a missing refID yields.
NilState == [nil |-> TRUE]

\* &chunkingState{}
ZeroState == [nil |-> FALSE, frames |-> <<>>, curFrame |-> NilFrame,
              Error |-> "", Status |-> 0, ErrorSource |-> ""]

\* w.states[refID]
StateOf(sts, refID) == IF refID \in DOMAIN sts THEN sts[refID] ELSE NilState

\* new(data.Frame): the lowest address not in use.
Alloc(h) == CHOOSE a \in 1..(Cardinality(DOMAIN h) + 1) :
                /\ a \notin DOMAIN h
                /\ \A b \in 1..(a - 1) : b \in DOMAIN h

\* h with address a holding f.
Store(h, a, f) == [b \in DOMAIN h \cup {a} |-> IF b = a THEN f ELSE h[b]]

\* addFrame that makes the marker the current frame.
addFrame_MarkerCurrent(st, f) ==
    [st EXCEPT !.frames = st.frames \o <<f, markerFrame>>, !.curFrame = markerFrame]

\* addFrame that appends the frame without a marker before it.
addFrame_NoMarker(st, f) ==
    [st EXCEPT !.frames = st.frames \o <<f>>, !.curFrame = f]

\* chunkingState.addFrame(f): f is an address.
addFrame(st, f) ==
    [st EXCEPT !.frames = st.frames \o <<markerFrame, f>>, !.curFrame = f]

\* addRow that appends the fields it was given before it checks their number.
addRow_AppendBeforeCheck(st, h, fields) ==
    IF st.nil THEN [err |-> Panic, heap |-> h]
    ELSE IF st.curFrame = NilFrame THEN [err |-> NoOpenFragment, heap |-> h]
    ELSE [err |-> IF Len(fields) # Len(h[st.curFrame].Fields)
                  THEN FieldArityMismatch ELSE OK,
          heap |-> [h EXCEPT ![st.curFrame].Fields =
                      [j \in 1..Len(@) |->
                         IF j <= Len(fields) THEN Append(@[j], fields[j])
                         ELSE @[j]]]]

\* chunkingState.addRow(fields...): the error and the heap afterwards.
addRow(st, h, fields) ==
    IF st.nil THEN [err |-> Panic, heap |-> h]
    ELSE IF st.curFrame = NilFrame THEN [err |-> NoOpenFragment, heap |-> h]
    ELSE IF Len(fields) # Len(h[st.curFrame].Fields)
         THEN [err |-> FieldArityMismatch, heap |-> h]
    ELSE [err |-> OK,
          heap |-> [h EXCEPT ![st.curFrame] = AppendRow(@, fields)]]

\* reset that starts the copy with a marker, as addFrame does.
reset_WithMarker(st, h) ==
    IF st.curFrame # NilFrame
    THEN LET curFrame == Alloc(h)
         IN  [st |-> [ZeroState EXCEPT !.frames = <<markerFrame, curFrame>>,
                                       !.curFrame = curFrame],
              heap |-> Store(h, curFrame, EmptyCopy(h[st.curFrame]))]
    ELSE [st |-> ZeroState, heap |-> h]

\* reset that keeps the current frame instead of an empty copy of it.
reset_KeepRows(st, h) ==
    IF st.curFrame # NilFrame
    THEN [st |-> [ZeroState EXCEPT !.frames = <<st.curFrame>>,
                                   !.curFrame = st.curFrame],
          heap |-> h]
    ELSE [st |-> ZeroState, heap |-> h]

\* reset that keeps the error of the state.
reset_KeepError(st, h) ==
    IF st.curFrame # NilFrame
    THEN LET curFrame == Alloc(h)
         IN  [st |-> [ZeroState EXCEPT !.frames = <<curFrame>>,
                                       !.curFrame = curFrame,
                                       !.Error = st.Error],
              heap |-> Store(h, curFrame, EmptyCopy(h[st.curFrame]))]
    ELSE [st |-> [ZeroState EXCEPT !.Error = st.Error], heap |-> h]

\* reset that leaves the zero state, whatever the state was.
reset_ClearAll(st, h) == [st |-> ZeroState, heap |-> h]

\* reset whose copy has no fields.
reset_DropSchema(st, h) ==
    IF st.curFrame # NilFrame
    THEN LET curFrame == Alloc(h)
         IN  [st |-> [ZeroState EXCEPT !.frames = <<curFrame>>,
                                       !.curFrame = curFrame],
              heap |-> Store(h, curFrame, NewFrame(h[st.curFrame].RefID, 0, <<>>, TRUE))]
    ELSE [st |-> ZeroState, heap |-> h]

\* chunkingState.reset(): the state and the heap afterwards.
reset(st, h) ==
    IF st.curFrame # NilFrame
    THEN LET curFrame == Alloc(h)
         IN  [st |-> [ZeroState EXCEPT !.frames = <<curFrame>>,
                                       !.curFrame = curFrame],
              heap |-> Store(h, curFrame, EmptyCopy(h[st.curFrame]))]
    ELSE [st |-> ZeroState, heap |-> h]

\* ---------------------------------------------------- chunkedDataWriter
\* An order of the refIDs, to list them.
Less(x, y) == x = "A" /\ y = "B"

\* The orders in which a range over the map s can visit its keys.
Orders(s) == {o \in [1..Cardinality(s) -> s] :
                 \A i, j \in 1..Cardinality(s) : i # j => o[i] # o[j]}

\* Response that tags every response with the same refID.
Response_FixedRefId(refID, state, h) ==
    [RefId |-> "A",
     Frames |-> [i \in 1..Len(state.frames) |-> MarshalArrow(h[state.frames[i]])],
     Status |-> state.Status,
     Error |-> state.Error,
     ErrorSource |-> state.ErrorSource]

\* The response flush builds for one refID.
Response(refID, state, h) ==
    [RefId |-> refID,
     Frames |-> [i \in 1..Len(state.frames) |-> MarshalArrow(h[state.frames[i]])],
     Status |-> state.Status,
     Error |-> state.Error,
     ErrorSource |-> state.ErrorSource]

\* flush, first loop: for refID, state := range w.states, in the order given.
\* sends: how many Sends the transport still accepts before it fails.
RECURSIVE sendLoop(_, _, _, _, _, _)
sendLoop(sts, h, order, strm, brk, sends) ==
    IF order = <<>> THEN [stream |-> strm, broken |-> brk, err |-> OK]
    ELSE LET refID == Head(order)
             state == sts[refID]
         IN  IF \E i \in 1..Len(state.frames) : ~h[state.frames[i]].Encodable
             THEN [stream |-> strm, broken |-> brk, err |-> EncodingFailure]
             ELSE IF brk \/ sends = 0
             THEN [stream |-> strm, broken |-> TRUE, err |-> TransportFailure]
             ELSE sendLoop(sts, h, Tail(order),
                           Append(strm, Response(refID, state, h)),
                           brk, sends - 1)

\* flush, second loop: for _, state := range w.states { state.reset() }
RECURSIVE resetLoop(_, _, _)
resetLoop(sts, h, order) ==
    IF order = <<>> THEN [states |-> sts, heap |-> h]
    ELSE LET r == reset(sts[Head(order)], h)
         IN  resetLoop([sts EXCEPT ![Head(order)] = r.st], r.heap, Tail(order))

\* The frames the writer still points to; the rest is garbage.
Reachable(sts) ==
    {markerFrame} \cup
    UNION {{sts[k].frames[i] : i \in 1..Len(sts[k].frames)} : k \in DOMAIN sts}

\* The frame lists of the states of the refIDs in keys, one after the other.
RECURSIVE AllFrames(_, _)
AllFrames(sts, keys) ==
    IF keys = {} THEN <<>>
    ELSE LET k == CHOOSE x \in keys : \A y \in keys : x = y \/ Less(x, y)
         IN  sts[k].frames \o AllFrames(sts, keys \ {k})

\* Addresses are names.  Collect drops the frames the writer no longer points
\* to and renames the others in the order AllFrames lists them, so that two
\* writers that differ in their addresses only are the same writer.
Rename(sts) ==
    LET live == SelectSeq(AllFrames(sts, DOMAIN sts), LAMBDA a : a # markerFrame)
    IN  [a \in Reachable(sts) |->
           IF a = markerFrame THEN markerFrame
           ELSE markerFrame + (CHOOSE i \in 1..Len(live) : live[i] = a)]

Collect(w) ==
    LET to == Rename(w.states)
    IN  [w EXCEPT
           !.states = [k \in DOMAIN w.states |->
                         [w.states[k] EXCEPT
                            !.frames = [i \in 1..Len(@) |-> to[@[i]]],
                            !.curFrame = IF @ = NilFrame THEN NilFrame ELSE to[@]]],
           !.heap = [b \in {to[a] : a \in Reachable(w.states)} |->
                       w.heap[CHOOSE a \in Reachable(w.states) : to[a] = b]]]

\* The writer as a value: what the methods read and change.
Writer(sts, c, h, strm, brk) ==
    [states |-> sts, count |-> c, heap |-> h, stream |-> strm, broken |-> brk]

\* flush that resets the states and count when a Send or an encoding failed.
flushAll_ResetOnFailure(w, order, sends) ==
    LET s == sendLoop(w.states, w.heap, order, w.stream, w.broken, sends)
        r == resetLoop(w.states, w.heap, order)
    IN  [w |-> [w EXCEPT !.states = r.states,
                         !.heap = r.heap,
                         !.count = 0,
                         !.stream = s.stream,
                         !.broken = s.broken],
         err |-> s.err]

\* flush below its first test: send every state, then reset every state.
flushAll(w, order, sends) ==
    LET s == sendLoop(w.states, w.heap, order, w.stream, w.broken, sends)
    IN  IF s.err # OK
        THEN [w |-> [w EXCEPT !.stream = s.stream, !.broken = s.broken],
              err |-> s.err]
        ELSE LET r == resetLoop(w.states, w.heap, order)
             IN  [w |-> [w EXCEPT !.states = r.states,
                                  !.heap = r.heap,
                                  !.count = 0,
                                  !.stream = s.stream],
                  err |-> OK]

\* flush without its first test.
flush_NoCountTest(w, order, sends) == flushAll(w, order, sends)

\* chunkedDataWriter.flush()
flush(w, order, sends) ==
    IF w.count = 0 THEN [w |-> w, err |-> OK]
    ELSE flushAll(w, order, sends)

\* maybeFlush that flushes above maxBatchSize only.
maybeFlush_OffByOne(w, order, sends) ==
    IF w.count <= maxBatchSize THEN [w |-> w, err |-> OK]
    ELSE flush(w, order, sends)

\* chunkedDataWriter.maybeFlush()
maybeFlush(w, order, sends) ==
    IF w.count < maxBatchSize THEN [w |-> w, err |-> OK]
    ELSE flush(w, order, sends)

\* The errors of a flush: fatal for the channel.  The producer that gets one
\* returns it at once, and dataSDKAdapter.QueryChunkedData ends the stream
\* with it.
Fatal == {EncodingFailure, TransportFailure}

\* The rows the frames of the responses of strm carry, in order.
RowsOfResponse(sr) ==
    Flatten([i \in 1..Len(sr.Frames) |-> RowIDs(UnmarshalArrowFrame(sr.Frames[i]))])
RowsOfStream(strm) == Flatten([i \in 1..Len(strm) |-> RowsOfResponse(strm[i])])

\* How many elements of seq are x.
Occurrences(x, seq) == Cardinality({i \in 1..Len(seq) : seq[i] = x})

\* An encoded frame without fields and without rows: the marker as sent.
IsMarker(b) == b.ncols = 0 /\ b.nrows = 0

\* The marker frames the responses of strm carry for refID.
MarkersOf(strm, refID) ==
    Cardinality({p \in (1..Len(strm)) \X (1..MaxFrames * 2 + 1) :
                   /\ strm[p[1]].RefId = refID
                   /\ p[2] <= Len(strm[p[1]].Frames)
                   /\ IsMarker(strm[p[1]].Frames[p[2]])})

\* A writer method runs when the client has received every response sent
\* before: what the client does with a response depends on the responses it
\* received, not on the time it receives them.
\* The outcome of the method: the writer's fields and the bookkeeping.
Returns(op, refID, n, r) ==
    /\ stream = <<>>
    /\ sent' = [t \in DOMAIN sent |->
                 sent[t] + Occurrences(t, RowsOfStream(r.w.stream))]
    /\ markers' = [k \in RefIDs |-> markers[k] + MarkersOf(r.w.stream, k)]
    /\ batches' =
          IF /\ op # "WriteError"
             /\ ~wroteError
             /\ nFrames <= (IF op = "WriteFrame" THEN 0 ELSE 1)
          THEN [auto |-> batches.auto +
                          IF op \in {"WriteFrame", "WriteFrameRow"}
                          THEN Len(r.w.stream) ELSE 0,
                close |-> batches.close +
                          IF op = "Close" THEN Len(r.w.stream) ELSE 0]
          ELSE [auto |-> 0, close |-> 0]
    /\ states' = Collect(r.w).states
    /\ count' = r.w.count
    /\ heap' = Collect(r.w).heap
    /\ stream' = r.w.stream
    /\ broken' = r.w.broken
    /\ lastCall' = [op |-> op, refID |-> refID, n |-> n, err |-> r.err]
    /\ handler' = IF r.err = Panic THEN "panicked"
                  ELSE IF r.err \in Fatal THEN "failed"
                  ELSE handler

\* chunkedDataWriter.WriteFrame(refID, f): f is a new frame of ncols fields
\* and nrows rows.
WriteFrame(refID, ncols, nrows, enc, order, sends) ==
    /\ handler = "running"
    /\ nFrames < MaxFrames
    /\ nextRow + nrows <= MaxRows + 1
    /\ LET state == IF refID \in DOMAIN states THEN states[refID] ELSE ZeroState
           f == Alloc(heap)
           frame == NewFrame(refID, ncols,
                             [i \in 1..nrows |-> nextRow + i - 1], enc)
           w1 == Writer([k \in DOMAIN states \cup {refID} |->
                            IF k = refID THEN addFrame(state, f) ELSE states[k]],
                        count + Rows(frame),
                        Store(heap, f, frame), stream, broken)
       IN  /\ Returns("WriteFrame", refID, 0, maybeFlush(w1, order, sends))
           /\ written' = [written EXCEPT ![refID] = Append(@, frame)]
    /\ nextRow' = nextRow + nrows
    /\ nFrames' = nFrames + 1
    /\ UNCHANGED <<wroteError, clientVars>>

\* chunkedDataWriter.WriteFrameRow(refID, fields...): a row of n fields.
WriteFrameRow(refID, n, order, sends) ==
    /\ handler = "running"
    /\ nextRow <= MaxRows
    /\ LET fields == [j \in 1..n |-> <<nextRow, j>>]
           a == addRow(StateOf(states, refID), heap, fields)
           w1 == Writer(states, count + 1, a.heap, stream, broken)
       IN  IF a.err # OK
           THEN /\ Returns("WriteFrameRow", refID, n,
                           [w |-> Writer(states, count, a.heap, stream, broken),
                            err |-> a.err])
                /\ UNCHANGED <<written, nextRow>>
           ELSE /\ Returns("WriteFrameRow", refID, n, maybeFlush(w1, order, sends))
                /\ written' = [written EXCEPT
                                 ![refID][Len(written[refID])] = AppendRow(@, fields)]
                /\ nextRow' = nextRow + 1
    /\ UNCHANGED <<nFrames, wroteError, clientVars>>

\* chunkedDataWriter.WriteError(refID, err)
WriteError(refID, e, order, sends) ==
    /\ handler = "running"
    /\ LET state == StateOf(states, refID)
           w1 == Writer([states EXCEPT ![refID].Error = e], count + 1,
                        heap, stream, broken)
       IN  IF state.nil
           THEN Returns("WriteError", refID, 0,
                        [w |-> Writer(states, count, heap, stream, broken),
                         err |-> Panic])
           ELSE Returns("WriteError", refID, 0, flush(w1, order, sends))
    /\ wroteError' = TRUE
    /\ UNCHANGED <<written, nextRow, nFrames, clientVars>>

\* chunkedDataWriter.Close()
Close(order, sends) ==
    /\ handler = "running"
    /\ Returns("Close", "", 0,
               flush(Writer(states, count, heap, stream, broken), order, sends))
    /\ UNCHANGED <<written, nextRow, nFrames, wroteError, clientVars>>

\* dataSDKAdapter.QueryChunkedData: the ChunkedDataHandler returns nil, and
\* the stream ends with end-of-data.
HandlerReturns ==
    /\ handler = "running"
    /\ handler' = "returned"
    /\ lastCall' = [op |-> "return", refID |-> "", n |-> 0, err |-> OK]
    /\ UNCHANGED <<writerVars, stream, clientVars, written, nextRow, nFrames,
                   wroteError, sent, markers, batches>>

\* -------------------------------------- TestPluginClient.QueryChunkedData
\* streamState{}: the value a lookup of a missing refID yields.  curFrame is
\* the position in frames of the frame it points to, 0 for nil.
ZeroStreamState == [frames |-> <<>>, curFrame |-> 0]

\* stateByRefID[refID]
StreamStateOf(m, refID) == IF refID \in DOMAIN m THEN m[refID] ELSE ZeroStreamState

\* for i, field := range f.Fields { st.curFrame.Fields[i].AppendAll(field) }
\* Fields[i] is out of range when f has more fields than the current frame.
mergeFrame(cur, f) ==
    IF Len(f.Fields) > Len(cur.Fields) THEN [err |-> Panic, frame |-> cur]
    ELSE [err |-> OK,
          frame |-> [cur EXCEPT !.Fields =
                       [j \in 1..Len(cur.Fields) |->
                          IF j <= Len(f.Fields)
                          THEN AppendAll(cur.Fields[j], f.Fields[j])
                          ELSE cur.Fields[j]]]]

\* for _, frame := range sr.Frames { ... }
RECURSIVE frameLoop(_, _)

\* The loop without its test of f.Rows() == 0: a frame without rows is
\* merged or appended as any other.
frameLoop_ZeroRowsAsData(st, frames) ==
    IF frames = <<>> THEN [st |-> st, err |-> OK]
    ELSE LET f == UnmarshalArrowFrame(Head(frames))
         IN  IF st.curFrame # 0
             THEN LET m == mergeFrame(st.frames[st.curFrame], f)
                  IN  IF m.err # OK THEN [st |-> st, err |-> m.err]
                      ELSE frameLoop([st EXCEPT !.frames[st.curFrame] = m.frame],
                                     Tail(frames))
             ELSE frameLoop([frames |-> Append(st.frames, f),
                             curFrame |-> Len(st.frames) + 1],
                            Tail(frames))

frameLoop(st, frames) ==
    IF frames = <<>> THEN [st |-> st, err |-> OK]
    ELSE LET f == UnmarshalArrowFrame(Head(frames))
         IN  IF Rows(f) = 0
             THEN frameLoop([st EXCEPT !.curFrame = 0], Tail(frames))
             ELSE IF st.curFrame # 0
             THEN LET m == mergeFrame(st.frames[st.curFrame], f)
                  IN  IF m.err # OK THEN [st |-> st, err |-> m.err]
                      ELSE frameLoop([st EXCEPT !.frames[st.curFrame] = m.frame],
                                     Tail(frames))
             ELSE frameLoop([frames |-> Append(st.frames, f),
                             curFrame |-> Len(st.frames) + 1],
                            Tail(frames))

\* What QueryChunkedData has not returned yet, and what it returns with an
\* error: nil.
NoResult == [returned |-> FALSE, nil |-> TRUE, Responses |-> <<>>, err |-> OK]
NilResult(err) == [returned |-> TRUE, nil |-> TRUE, Responses |-> <<>>, err |-> err]

\* stream.Recv() returns a response: one pass of the for loop.
Recv ==
    /\ client = "recv"
    /\ stream # <<>>
    /\ LET sr == Head(stream)
           r == frameLoop(StreamStateOf(stateByRefID, sr.RefId), sr.Frames)
       IN  /\ stream' = Tail(stream)
           /\ lastCall' = [op |-> "Recv", refID |-> sr.RefId, n |-> 0, err |-> r.err]
           /\ IF r.err = OK
              THEN /\ stateByRefID' =
                        [k \in DOMAIN stateByRefID \cup {sr.RefId} |->
                           IF k = sr.RefId THEN r.st ELSE stateByRefID[k]]
                   /\ UNCHANGED <<client, result>>
              ELSE /\ client' = "panicked"
                   /\ UNCHANGED <<stateByRefID, result>>
    /\ UNCHANGED <<writerVars, handler, written, nextRow, nFrames, wroteError,
                   sent, markers, batches>>

\* stream.Recv() returns io.EOF: the handler returned nil and every response
\* was received.
RecvEOF ==
    /\ client = "recv"
    /\ handler = "returned"
    /\ ~broken
    /\ stream = <<>>
    /\ client' = "done"
    /\ result' = [returned |-> TRUE, nil |-> FALSE,
                  Responses |-> [k \in DOMAIN stateByRefID |->
                                   stateByRefID[k].frames],
                  err |-> OK]
    /\ lastCall' = [op |-> "RecvEOF", refID |-> "", n |-> 0, err |-> OK]
    /\ UNCHANGED <<writerVars, stream, handler, stateByRefID, written, nextRow,
                   nFrames, wroteError, sent, markers, batches>>

\* stream.Recv() returns another error: the transport failed, the server
\* crashed, or the handler returned an error after its last response.
RecvError ==
    /\ client = "recv"
    /\ \/ broken
       \/ handler = "panicked"
       \/ handler = "failed" /\ stream = <<>>
    /\ client' = "failed"
    /\ result' = NilResult(TransportFailure)
    /\ lastCall' = [op |-> "RecvError", refID |-> "", n |-> 0, err |-> TransportFailure]
    /\ UNCHANGED <<writerVars, stream, handler, stateByRefID, written, nextRow,
                   nFrames, wroteError, sent, markers, batches>>

\* ------------------------------------------------------- specification
Init ==
    /\ states = [k \in {} |-> ZeroState]
    /\ count = 0
    /\ heap = [a \in {markerFrame} |-> NewFrame("", 0, <<>>, TRUE)]
    /\ stream = <<>>
    /\ broken = FALSE
    /\ handler = "running"
    /\ stateByRefID = [k \in {} |-> ZeroStreamState]
    /\ client = "recv"
    /\ result = NoResult
    /\ lastCall = [op |-> "newChunkedDataWriter", refID |-> "", n |-> 0, err |-> OK]
    /\ written = [k \in RefIDs |-> <<>>]
    /\ nextRow = 1
    /\ nFrames = 0
    /\ wroteError = FALSE
    /\ sent = [t \in 1..MaxRows |-> 0]
    /\ markers = [k \in RefIDs |-> 0]
    /\ batches = [auto |-> 0, close |-> 0]

\* The inputs of a flush: the order of the range over the n keys of the map,
\* and how many Sends succeed (n: all of them).  A call that reaches no Send
\* (runs is false) has one outcome, whatever they are.
FlushInputs(keys, runs) ==
    IF runs THEN Orders(keys) \X (0..Cardinality(keys))
    ELSE {<<CHOOSE order \in Orders(keys) : TRUE, Cardinality(keys)>>}

\* The frames the producer passes to WriteFrame: <<fields, rows, encodable>>.
\* A frame of one field and no row, a frame of two fields and one row, and a
\* frame MarshalArrow rejects for the type of its field.
FrameInputs == {<<1, 0, TRUE>>, <<2, 1, TRUE>>, <<1, 0, FALSE>>}

\* The rows the producer passes to WriteFrameRow: their number of fields.
RowInputs == {1, 2}

\* refIDs are names: the first the producer opens is called A.
FirstRefIDs == IF "A" \in DOMAIN states THEN RefIDs ELSE {"A"}

Next ==
    \/ \E refID \in FirstRefIDs, f \in FrameInputs :
          \E fi \in FlushInputs(DOMAIN states \cup {refID},
                                count + f[2] >= maxBatchSize) :
             WriteFrame(refID, f[1], f[2], f[3], fi[1], fi[2])
    \/ \E refID \in RefIDs, n \in RowInputs :
          \E fi \in FlushInputs(DOMAIN states, count + 1 >= maxBatchSize) :
             WriteFrameRow(refID, n, fi[1], fi[2])
    \/ \E refID \in RefIDs :
          \E fi \in FlushInputs(DOMAIN states, refID \in DOMAIN states) :
             WriteError(refID, "boom", fi[1], fi[2])
    \/ \E fi \in FlushInputs(DOMAIN states, count # 0) : Close(fi[1], fi[2])
    \/ HandlerReturns
    \/ Recv
    \/ RecvEOF
    \/ RecvError

Spec == Init /\ [][Next]_vars

\* ------------------------------------- the client behind any server
\* The client does not know who writes the stream: p.DataClient may be any
\* plugin.  The frames a server puts in a response: <<fields, rows>>.
FrameKinds == {<<0, 0>>, <<1, 0>>, <<1, 1>>, <<2, 1>>}

\* The responses a server sends: up to two frames.
FrameLists == {<<k>> : k \in FrameKinds} \cup
              {<<k, l>> : <<k, l>> \in FrameKinds \X FrameKinds}

\* The encoded frames of the kinds given, their rows numbered from row.
RECURSIVE EncodeAll(_, _, _)
EncodeAll(refID, kinds, row) ==
    IF kinds = <<>> THEN <<>>
    ELSE <<MarshalArrow(NewFrame(refID, Head(kinds)[1],
                                 [i \in 1..Head(kinds)[2] |-> row + i - 1],
                                 TRUE))>>
         \o EncodeAll(refID, Tail(kinds), row + Head(kinds)[2])

\* The rows of the frames of the kinds given.
RECURSIVE RowsIn(_)
RowsIn(kinds) == IF kinds = <<>> THEN 0 ELSE Head(kinds)[2] + RowsIn(Tail(kinds))

\* The server sends one response for refID, which stream.Recv() will return.
ServerSends(refID, kinds) ==
    /\ handler = "running"
    /\ stream = <<>>
    /\ nextRow + RowsIn(kinds) <= MaxRows + 1
    /\ stream' = <<[RefId |-> refID,
                    Frames |-> EncodeAll(refID, kinds, nextRow),
                    Status |-> 0, Error |-> "", ErrorSource |-> ""]>>
    /\ nextRow' = nextRow + RowsIn(kinds)
    /\ lastCall' = [op |-> "Send", refID |-> refID, n |-> 0, err |-> OK]
    /\ UNCHANGED <<writerVars, handler, clientVars, written, nFrames,
                   wroteError, sent, markers, batches>>

\* The server ends the stream with an error.
ServerFails ==
    /\ handler = "running"
    /\ handler' = "failed"
    /\ lastCall' = [op |-> "return", refID |-> "", n |-> 0,
                    err |-> TransportFailure]
    /\ UNCHANGED <<writerVars, stream, clientVars, written, nextRow, nFrames,
                   wroteError, sent, markers, batches>>

NextClient ==
    \/ \E refID \in RefIDs, kinds \in FrameLists : ServerSends(refID, kinds)
    \/ HandlerReturns
    \/ ServerFails
    \/ Recv
    \/ RecvEOF
    \/ RecvError

SpecClient == Init /\ [][NextClient]_vars

\* ------------------------------------------------------------- properties
\* The logical tables of refID as the producer built them: one per WriteFrame
\* call whose frame has rows.
Expected(refID) == SelectSeq(written[refID], LAMBDA f : Rows(f) > 0)

\* The frames the client returned for refID.
Returned(refID) ==
    IF refID \in DOMAIN result.Responses THEN result.Responses[refID] ELSE <<>>

\* The cells of a list of frames.
Cells(frames) == [i \in 1..Len(frames) |-> frames[i].Fields]

\* The producer wrote to refID only: one WriteFrame, then rows, no WriteError.
OnlyRowsOf(refID) ==
    /\ Len(written[refID]) = 1
    /\ ~wroteError
    /\ \A other \in RefIDs \ {refID} : written[other] = <<>>

\* The client got end-of-data and the writer holds no unsent row.
Delivered == client = "done" /\ count = 0

\* C1: when the producer opens one table, appends rows to it and closes, the
\* client returns for that refID one table with exactly the appended rows in
\* append order, however many flushes the rows were split over.
C1_RowsRoundTrip ==
    Delivered =>
        \A refID \in RefIDs :
            OnlyRowsOf(refID) => Cells(Returned(refID)) = Cells(Expected(refID))

\* C1 witness: a table of more rows than the threshold, sent in several
\* responses, came back whole.
C1_Witness ==
    /\ Delivered
    /\ \E refID \in RefIDs :
          /\ OnlyRowsOf(refID)
          /\ Len(Returned(refID)) = 1
          /\ Rows(Returned(refID)[1]) > maxBatchSize

\* C2: whatever the interleaving of WriteFrame, WriteFrameRow and WriteError,
\* the client returns one logical table per WriteFrame call that received
\* rows, with the rows of that call: a flush never splits a table.
C2_OneTablePerWriteFrame ==
    Delivered =>
        \A refID \in RefIDs : Cells(Returned(refID)) = Cells(Expected(refID))

\* The rows of a list of frames.
RowSet(frames) ==
    UNION {{RowIDs(frames[i])[k] : k \in 1..Rows(frames[i])} : i \in 1..Len(frames)}

\* C3: the client never merges across refIDs: the frames it holds for X are
\* tagged X and carry only rows the producer wrote to X, and receiving a
\* response of Y leaves what it holds for every other X as it was.
C3_NoCrossMerge ==
    [][/\ \A X \in DOMAIN stateByRefID' :
            /\ RowSet(stateByRefID'[X].frames) \subseteq RowSet(written'[X])
            /\ \A i \in 1..Len(stateByRefID'[X].frames) :
                  stateByRefID'[X].frames[i].RefID = X
       /\ lastCall'.op = "Recv" =>
            \A X \in RefIDs \ {lastCall'.refID} :
                StreamStateOf(stateByRefID', X) = StreamStateOf(stateByRefID, X)
      ]_vars

\* C3 witness: the client holds rows of both refIDs.
C3_Witness ==
    /\ lastCall.op = "Recv"
    /\ \A X \in RefIDs : X \in DOMAIN stateByRefID /\ stateByRefID[X].frames # <<>>

\* C4: WriteFrameRow on a refID no WriteFrame was called for returns the
\* NoOpenFragment error and leaves states and count as they were.
C4_NoOpenFragment ==
    [][(lastCall'.op = "WriteFrameRow" /\ lastCall'.refID \notin DOMAIN states)
          => /\ lastCall'.err = NoOpenFragment
             /\ states' = states
             /\ count' = count
      ]_vars

\* The number of fields of the frame refID's rows go to.
OpenCols(refID) == Len(heap[states[refID].curFrame].Fields)

\* C5: WriteFrameRow with a number of fields other than that of the open
\* frame returns FieldArityMismatch and changes nothing: no frame, no frame
\* list, no count, and nothing is sent.
C5_FieldArityMismatch ==
    [][(/\ lastCall'.op = "WriteFrameRow"
        /\ lastCall'.refID \in DOMAIN states
        /\ states[lastCall'.refID].curFrame # NilFrame
        /\ lastCall'.n # OpenCols(lastCall'.refID))
          => /\ lastCall'.err = FieldArityMismatch
             /\ UNCHANGED <<states, heap, count, stream, sent, written>>
      ]_vars

\* C5 witness: a row of the wrong length was refused while rows were buffered.
C5_Witness ==
    /\ lastCall.op = "WriteFrameRow"
    /\ lastCall.err = FieldArityMismatch
    /\ count > 0

\* The rows the writer holds for refID and has not sent.
Unsent(refID) ==
    RowSet([i \in 1..Len(states[refID].frames) |-> heap[states[refID].frames[i]]])

\* C6: WriteError(B, err) while another refID A holds unsent rows sends, in
\* one flush, a response for B with the error string and a response for A
\* with A's unsent rows, whether or not WriteFrame was called for B.
\* (A flush the transport or the encoding fails is another matter.)
C6_ErrorFlushesAll ==
    [][(/\ lastCall'.op = "WriteError"
        /\ lastCall'.err \notin Fatal
        /\ \E A \in DOMAIN states \ {lastCall'.refID} : Unsent(A) # {})
          => /\ \E i \in 1..Len(stream') :
                   /\ stream'[i].RefId = lastCall'.refID
                   /\ stream'[i].Error = "boom"
             /\ \A A \in DOMAIN states \ {lastCall'.refID} :
                   \E i \in 1..Len(stream') :
                       /\ stream'[i].RefId = A
                       /\ RowSet([k \in 1..Len(stream'[i].Frames) |->
                                    UnmarshalArrowFrame(stream'[i].Frames[k])])
                             = Unsent(A)
             /\ Len(stream') = Cardinality(DOMAIN states \cup {lastCall'.refID})
      ]_vars

\* C7: a flush that fails to encode a frame has sent no response at all.
C7_FlushAllOrNothing ==
    [][lastCall'.err = EncodingFailure => stream' = stream]_vars

\* C8: Close with count = 0 sends nothing and leaves every state as it was,
\* and after a Close that succeeded count is 0, so that a second Close sends
\* nothing.
C8_CloseIdempotent ==
    [][/\ (lastCall'.op = "Close" /\ count = 0)
            => /\ lastCall'.err = OK
               /\ UNCHANGED <<states, heap, count, stream, sent>>
       /\ (lastCall'.op = "Close" /\ lastCall'.err = OK) => count' = 0
      ]_vars

\* C8 witness: a Close that had nothing to send, on a writer that holds the
\* states of earlier flushes.
C8_Witness ==
    /\ lastCall.op = "Close"
    /\ lastCall.err = OK
    /\ stream = <<>>
    /\ DOMAIN states = RefIDs
    /\ \E t \in DOMAIN sent : sent[t] > 0

\* The rows the writer holds in a frame it can reach.
Buffered == UNION {Unsent(refID) : refID \in DOMAIN states}

\* C9: after Close returned nil every row the producer created, with
\* WriteFrame or with WriteFrameRow, was sent in exactly one response and the
\* writer holds none.
C9_CloseSendsEachRowOnce ==
    (lastCall.op = "Close" /\ lastCall.err = OK) =>
        /\ \A t \in 1..(nextRow - 1) : sent[t] = 1
        /\ Buffered = {}

\* C9 witness: a Close that sent the rest of more rows than one flush holds.
C9_Witness ==
    /\ lastCall.op = "Close"
    /\ lastCall.err = OK
    /\ stream # <<>>
    /\ nextRow - 1 > maxBatchSize

\* C10: after WriteFrame or WriteFrameRow returned nil, count is below
\* maxBatchSize and the writer holds no more than count unsent rows.
C10_CountBelowThreshold ==
    (lastCall.op \in {"WriteFrame", "WriteFrameRow"} /\ lastCall.err = OK) =>
        /\ count < maxBatchSize
        /\ Cardinality(Buffered) <= count

\* C10 witness: the row that reached the threshold was flushed with the rest.
C10_Witness ==
    /\ lastCall.op = "WriteFrameRow"
    /\ lastCall.err = OK
    /\ count = 0
    /\ stream # <<>>

\* The marker frames the writer holds for refID and has not sent.
BufferedMarkers(refID) ==
    IF refID \in DOMAIN states
    THEN Occurrences(markerFrame, states[refID].frames) ELSE 0

\* The first rows of the tables the producer built for refID.
FirstRows(refID) ==
    {RowIDs(written[refID][k])[1] :
        k \in {i \in 1..Len(written[refID]) : Rows(written[refID][i]) > 0}}

\* In a response every marker is followed at once by a frame that is no
\* marker, a frame after the first follows a marker, and the rows of a frame
\* that follows a marker start with the first row of a table.
WellMarked(sr) ==
    \A i \in 1..Len(sr.Frames) :
        /\ IsMarker(sr.Frames[i]) =>
              i < Len(sr.Frames) /\ ~IsMarker(sr.Frames[i + 1])
        /\ (i > 1 /\ ~IsMarker(sr.Frames[i])) => IsMarker(sr.Frames[i - 1])
        /\ (i > 1 /\ sr.Frames[i].nrows > 0) =>
              sr.Frames[i].cells[1][1] \in FirstRows(sr.RefId)

\* One WriteFrame on refID, then rows, one more than the threshold in all,
\* and a Close that returned nil, the only Close that had rows to send.
OneTableClosed(refID) ==
    /\ lastCall.op = "Close"
    /\ lastCall.err = OK
    /\ OnlyRowsOf(refID)
    /\ nextRow - 1 = maxBatchSize + 1
    /\ batches.close = 1

\* C11: the marker is sent once per WriteFrame call, right before the first
\* fragment of that call's table, and no flush adds one: the markers sent and
\* those still buffered are as many as the WriteFrame calls, and every
\* response is well marked.  One WriteFrame, maxBatchSize + 1 rows and Close
\* make one automatic flush, two responses and one marker.
C11_MarkerOncePerTable ==
    /\ \A i \in 1..Len(stream) : WellMarked(stream[i])
    /\ handler # "failed" =>
          \A refID \in RefIDs :
              markers[refID] + BufferedMarkers(refID) = Len(written[refID])
    /\ \A refID \in RefIDs :
          OneTableClosed(refID) =>
              /\ batches.auto = 1
              /\ batches.auto + batches.close = 2
              /\ markers[refID] = 1
              /\ BufferedMarkers(refID) = 0

\* C11 witness: the Close of that run has just sent the second response, a
\* fragment without a marker.
C11_Witness ==
    /\ \E refID \in RefIDs : OneTableClosed(refID) /\ markers[refID] = 1
    /\ Len(stream) = 1
    /\ \A i \in 1..Len(stream[1].Frames) : ~IsMarker(stream[1].Frames[i])
    /\ stream[1].Frames[1].nrows = 1

\* The fields of every frame the client holds have the same length.
ColumnsEven ==
    \A X \in DOMAIN stateByRefID :
        \A i \in 1..Len(stateByRefID[X].frames) :
            \A j, k \in 1..Len(stateByRefID[X].frames[i].Fields) :
                Len(stateByRefID[X].frames[i].Fields[j])
                   = Len(stateByRefID[X].frames[i].Fields[k])

\* C12: a frame with rows whose number of fields differs from that of the
\* frame it is merged into is refused: no field of the current frame grows,
\* so that its fields keep the same length, and the client goes on with the
\* other refIDs instead of crashing.
C12_SchemaMismatch == ColumnsEven /\ client # "panicked"

\* C13: when Recv returns an error that is not end-of-data the client
\* returns the frames it accumulated, together with the error.
C13_ErrorKeepsTables ==
    client = "failed" =>
        /\ result.err # OK
        /\ ~result.nil
        /\ result.Responses = [k \in DOMAIN stateByRefID |->
                                  stateByRefID[k].frames]

\* What the client holds for the refID of sr once it has received sr.
AfterRecv(sr) == frameLoop(StreamStateOf(stateByRefID, sr.RefId), sr.Frames).st

\* C14: a WriteError that returned nil leaves the producer running, and the
\* responses of its flush for the other refIDs are merged as those of any
\* flush: a table of another refID that the client holds open, and that got
\* no WriteFrame since, is still the open table once the client has received
\* the response.  Only end-of-data makes the client return its result.
C14_ErrorLeavesOthers ==
    [][/\ (lastCall'.op = "WriteError" /\ lastCall'.err = OK) =>
            /\ handler' = "running"
            /\ \A i \in 1..Len(stream') :
                  (/\ stream'[i].RefId # lastCall'.refID
                   /\ StreamStateOf(stateByRefID, stream'[i].RefId).curFrame # 0
                   /\ BufferedMarkers(stream'[i].RefId) = 0)
                     => AfterRecv(stream'[i]).curFrame
                          = stateByRefID[stream'[i].RefId].curFrame
       /\ (client' = "done" /\ client # "done") => lastCall'.op = "RecvEOF"
      ]_vars

\* The calls of the producer on the writer.
WriterOps == {"WriteFrame", "WriteFrameRow", "WriteError", "Close"}

\* The last frame of the response for refID in strm.
LastSent(strm, refID) ==
    LET sr == strm[CHOOSE i \in 1..Len(strm) : strm[i].RefId = refID]
    IN  sr.Frames[Len(sr.Frames)]

\* C15: a flush that succeeded leaves count = 0 and every state reset: a
\* state that had a current frame holds one frame, its current frame, with
\* no row and the fields of the frame just sent, and no error; a state
\* without a current frame holds no frame.  The copy reset makes is a new
\* object: the frames the writer held keep their rows.
C15_FlushResets ==
    [][/\ (lastCall'.op \in WriterOps /\ lastCall'.err = OK /\ stream' # <<>>) =>
            /\ count' = 0
            /\ \A k \in DOMAIN states' :
                  IF states'[k].curFrame = NilFrame
                  THEN states'[k] = ZeroState
                  ELSE /\ states'[k].frames = <<states'[k].curFrame>>
                       /\ states'[k].Error = ""
                       /\ Rows(heap'[states'[k].curFrame]) = 0
                       /\ Len(heap'[states'[k].curFrame].Fields)
                             = LastSent(stream', k).ncols
       /\ \A k \in DOMAIN states :
             states[k].curFrame # NilFrame =>
                 LET r == reset(states[k], heap)
                 IN  /\ r.st.curFrame \notin DOMAIN heap
                     /\ \A a \in DOMAIN heap : r.heap[a] = heap[a]
      ]_vars

\* C15 witness: a flush has just reset the states of two refIDs, one of
\* which sent rows.
C15_Witness ==
    /\ lastCall.op \in WriterOps
    /\ lastCall.err = OK
    /\ Len(stream) = 2
    /\ count = 0
    /\ \E i \in 1..2 : LastSent(stream, stream[i].RefId).nrows > 0
    /\ \A k \in RefIDs : k \in DOMAIN states /\ Len(states[k].frames) = 1

\* The first row of every frame of frames.
FirstRowOf(frames) == [i \in 1..Len(frames) |-> RowIDs(frames[i])[1]]

\* C16: a frame without rows is a boundary and never data.  Every frame the
\* client holds has rows; after a response whose last frame has no row the
\* refID has no current frame, and after one whose last frame has rows it
\* has one; the frames of a refID stay where they are in its list and come
\* in the order in which their first rows arrived.
C16_ZeroRowsIsBoundary ==
    [][/\ \A X \in DOMAIN stateByRefID' :
            /\ \A i \in 1..Len(stateByRefID'[X].frames) :
                  Rows(stateByRefID'[X].frames[i]) > 0
            /\ \A i, j \in 1..Len(stateByRefID'[X].frames) :
                  i < j => FirstRowOf(stateByRefID'[X].frames)[i]
                             < FirstRowOf(stateByRefID'[X].frames)[j]
       /\ (lastCall'.op = "Recv" /\ lastCall'.err = OK) =>
            LET sr == Head(stream)
                old == StreamStateOf(stateByRefID, sr.RefId).frames
                new == stateByRefID'[sr.RefId]
            IN  /\ (sr.Frames[Len(sr.Frames)].nrows = 0) <=> (new.curFrame = 0)
                /\ Len(new.frames) >= Len(old)
                /\ SubSeq(FirstRowOf(new.frames), 1, Len(old)) = FirstRowOf(old)
      ]_vars

\* C16 witness: the client has received a frame without rows after two
\* tables of one refID.
C16_Witness ==
    /\ lastCall.op = "Recv"
    /\ lastCall.err = OK
    /\ \E X \in DOMAIN stateByRefID :
          /\ X = lastCall.refID
          /\ stateByRefID[X].curFrame = 0
          /\ Len(stateByRefID[X].frames) = 2

\* C17: the marker frame is never changed and never the current frame of a
\* state: it has no field and no row in every state, whatever was called.
C17_MarkerImmutable ==
    /\ markerFrame \in DOMAIN heap
    /\ heap[markerFrame] = NewFrame("", 0, <<>>, TRUE)
    /\ \A k \in DOMAIN states : states[k].curFrame # markerFrame

\* C17 witness: a row was appended for a refID whose frame list holds the
\* marker, after a flush had sent and reset the frames of an earlier table.
C17_Witness ==
    /\ lastCall.op = "WriteFrameRow"
    /\ lastCall.err = OK
    /\ BufferedMarkers(lastCall.refID) = 1
    /\ Unsent(lastCall.refID) # {}
    /\ markers[lastCall.refID] = 1

\* Every frame of frames that the loop merges into the current frame has as
\* many fields as the current frame.
RECURSIVE MergesAgree(_, _)
MergesAgree(st, frames) ==
    \/ frames = <<>>
    \/ LET f == UnmarshalArrowFrame(Head(frames))
       IN  /\ (Rows(f) > 0 /\ st.curFrame # 0) =>
                 Len(f.Fields) = Len(st.frames[st.curFrame].Fields)
           /\ MergesAgree(frameLoop(st, <<Head(frames)>>).st, Tail(frames))

\* C18: the client never meets a schema mismatch in what this writer sends,
\* WriteFrame calls with different fields on one refID included: every frame
\* it merges has as many fields as the frame it is merged into, and the
\* merge does not fail.
C18_NoMismatchFromWriter ==
    [][lastCall'.op = "Recv" =>
          /\ lastCall'.err = OK
          /\ MergesAgree(StreamStateOf(stateByRefID, Head(stream).RefId),
                         Head(stream).Frames)
      ]_vars

\* C18 witness: the client holds two tables of different fields for one
\* refID and has merged a later fragment into the second.
C18_Witness ==
    /\ lastCall.op = "Recv"
    /\ \E X \in DOMAIN stateByRefID :
          /\ X = lastCall.refID
          /\ Len(stateByRefID[X].frames) = 2
          /\ Len(stateByRefID[X].frames[1].Fields)
                # Len(stateByRefID[X].frames[2].Fields)
          /\ Rows(stateByRefID[X].frames[2]) = 2
          /\ stateByRefID[X].curFrame = 2

\* C19: a refID that WriteFrame was called for stays open: its state has a
\* current frame, the last of its frame list, in every later state, and no
\* WriteFrameRow returns the error of a missing current frame.
C19_StaysOpen ==
    /\ \A k \in RefIDs :
          written[k] # <<>> =>
              /\ k \in DOMAIN states
              /\ states[k].curFrame # NilFrame
              /\ states[k].curFrame \in DOMAIN heap
              /\ states[k].frames # <<>>
              /\ states[k].frames[Len(states[k].frames)] = states[k].curFrame
    /\ lastCall.err # NoOpenFragment

\* C19 witness: a row was appended to the empty copy that the flush of a
\* WriteError left as the current frame.
C19_Witness ==
    /\ lastCall.op = "WriteFrameRow"
    /\ lastCall.err = OK
    /\ wroteError
    /\ count = 1
    /\ states[lastCall.refID].frames = <<states[lastCall.refID].curFrame>>
    /\ BufferedMarkers(lastCall.refID) = 0

\* C20: the error of WriteError(refID, err) is carried by one response, the
\* response for refID of the flush WriteError runs, and the flush clears it:
\* no other response of that flush and no response of a later call carries
\* an error, and between two calls no state of a running producer holds one.
C20_ErrorSentOnce ==
    [][/\ (lastCall'.op \in WriterOps /\ lastCall'.err = OK) =>
            /\ \A i \in 1..Len(stream') :
                  stream'[i].Error =
                     IF /\ lastCall'.op = "WriteError"
                        /\ stream'[i].RefId = lastCall'.refID
                     THEN "boom" ELSE ""
            /\ lastCall'.op = "WriteError" =>
                  Cardinality({i \in 1..Len(stream') :
                                 stream'[i].RefId = lastCall'.refID}) = 1
            /\ \A k \in DOMAIN states' : states'[k].Error = ""
       /\ handler' = "running" => \A k \in DOMAIN states' : states'[k].Error = ""
      ]_vars

\* C20 witness: a Close sent a response without error for the one refID of
\* the writer, after a WriteError for it.
C20_Witness ==
    /\ lastCall.op = "Close"
    /\ lastCall.err = OK
    /\ wroteError
    /\ DOMAIN states = {"A"}
    /\ Len(stream) = 1
    /\ stream[1].Error = ""
    /\ RowsOfStream(stream) # <<>>

\* p is a prefix of q.
IsPrefix(p, q) == Len(p) <= Len(q) /\ SubSeq(q, 1, Len(p)) = p

\* C21: a flush that fails leaves the writer as the call had made it before
\* the flush: count keeps the rows the call added, every state keeps its
\* frames with their rows and its error, no unsent row is dropped, and the
\* caller gets the error.
C21_FailedFlushKeepsState ==
    [][/\ (lastCall'.op \in WriterOps /\ lastCall'.err \in Fatal) =>
            /\ count' = count + (nextRow' - nextRow)
                          + (IF lastCall'.op = "WriteError" THEN 1 ELSE 0)
            /\ count' > 0
            /\ handler' = "failed"
            /\ \A k \in DOMAIN states :
                  /\ k \in DOMAIN states'
                  /\ Len(states'[k].frames) >= Len(states[k].frames)
                  /\ \A i \in 1..Len(states[k].frames) :
                        /\ Len(heap'[states'[k].frames[i]].Fields)
                              = Len(heap[states[k].frames[i]].Fields)
                        /\ IsPrefix(RowIDs(heap[states[k].frames[i]]),
                                    RowIDs(heap'[states'[k].frames[i]]))
                  /\ states'[k].curFrame # NilFrame
                  /\ states'[k].Error =
                        IF lastCall'.op = "WriteError" /\ lastCall'.refID = k
                        THEN "boom" ELSE states[k].Error
            /\ lastCall'.op \in {"WriteError", "Close"} =>
                  /\ heap' = heap
                  /\ \A k \in DOMAIN states : states'[k].frames = states[k].frames
            /\ \A t \in 1..(nextRow' - 1) :
                  (t >= nextRow \/ t \in Buffered) =>
                      \E k \in DOMAIN states' :
                          t \in RowSet([i \in 1..Len(states'[k].frames) |->
                                          heap'[states'[k].frames[i]]])
       /\ (broken' /\ ~broken) => lastCall'.err = TransportFailure
      ]_vars

\* C21 witness: a flush failed at its second Send, with rows buffered: one
\* response is sent and the writer still holds the rows.
C21_Witness ==
    /\ lastCall.op \in WriterOps
    /\ lastCall.err = TransportFailure
    /\ Len(stream) = 1
    /\ DOMAIN states = RefIDs
    /\ count > 0
    /\ Buffered # {}
    /\ \A k \in RefIDs : BufferedMarkers(k) > 0

====
